---------------------------- MODULE Spec2Model ----------------------------
(***************************************************************************)
(* A model of PaperlessClient (paperless-ngx.ts): a client instance holds  *)
(* a base URL and a token; every public method is a thin wrapper around    *)
(* the private request(method, path, body), which calls fetch once,        *)
(* awaits the response, throws on a non-ok status and otherwise returns    *)
(* response.json().                                                        *)
(*                                                                         *)
(* JavaScript values are tagged records.  Text on the wire (a request or   *)
(* response body) is a sequence of JSON tokens; JSON.stringify and         *)
(* JSON.parse are modelled as the encoder and the recursive-descent parser *)
(* between the two.  The transport (fetch and the server behind it) is the *)
(* environment: it may answer a request with any status line, fail it, or  *)
(* never answer.                                                           *)
(***************************************************************************)
EXTENDS Naturals, Sequences, FiniteSets, TLC

\* ------------------------------------------------------------------ bounds

\* Largest id argument a caller passes (ids are 0..MaxId: one and two digits).
MaxId == 10

\* Number of calls that may be in flight at once on one client instance.
MaxCalls == 2

\* ------------------------------------------------------- JavaScript values

Undef == [t |-> "undefined"]
Null == [t |-> "null"]
Bool(b) == [t |-> "boolean", b |-> b]
Num(n) == [t |-> "number", n |-> n]
Str(s) == [t |-> "string", s |-> s]
Arr(a) == [t |-> "array", a |-> a]
\* An object is its members in insertion order, each [k |-> key, v |-> value].
Obj(o) == [t |-> "object", o |-> o]
Member(k, v) == [k |-> k, v |-> v]
\* An object that (transitively) refers to itself; it is no finite tree, so it
\* is one opaque value.  The types admit it only below Record<string, any>.
Cyclic == [t |-> "cyclic"]

\* ToBoolean, as applied by `body ? ... : ...`: every object is truthy.
Truthy(v) ==
    CASE v.t = "undefined" -> FALSE
      [] v.t = "null" -> FALSE
      [] v.t = "boolean" -> v.b
      [] v.t = "number" -> v.n # 0
      [] v.t = "string" -> v.s # ""
      [] OTHER -> TRUE

\* --------------------------------------------------------------- JSON text

Digits == <<"0", "1", "2", "3", "4", "5", "6", "7", "8", "9">>

\* Number-to-string conversion of a non-negative integer, as done by the
\* template literal `${id}` and by JSON.stringify.
RECURSIVE NumToStr(_)
NumToStr(n) ==
    IF n < 10 THEN Digits[n + 1]
    ELSE NumToStr(n \div 10) \o Digits[(n % 10) + 1]

\* The strings and numbers that occur in records and bodies of the model.
Strings ==
    { "id", "title", "name", "username", "path", "document", "tags",
      "correspondent", "parameters", "detail", "Invoice", "inbox", "x" }
Numbers == 0 .. 12

Quote(s) == "\"" \o s \o "\""
IsStrTok(tok) == \E s \in Strings : Quote(s) = tok
Unquote(tok) == CHOOSE s \in Strings : Quote(s) = tok
IsNumTok(tok) == \E n \in Numbers : NumToStr(n) = tok
StrToNum(tok) == CHOOSE n \in Numbers : NumToStr(n) = tok

\* JSON.stringify(v): [ok |-> TRUE, text |-> tokens], or ok = FALSE when it
\* throws (a cyclic structure).  A member whose value is undefined is left
\* out; undefined inside an array is written null.
RECURSIVE Encode(_), EncodeElems(_), EncodeMembers(_)
Encode(v) ==
    CASE v.t = "null" -> [ok |-> TRUE, text |-> <<"null">>]
      [] v.t = "boolean" ->
            [ok |-> TRUE, text |-> <<IF v.b THEN "true" ELSE "false">>]
      [] v.t = "number" -> [ok |-> TRUE, text |-> <<NumToStr(v.n)>>]
      [] v.t = "string" -> [ok |-> TRUE, text |-> <<Quote(v.s)>>]
      [] v.t = "array" ->
            LET e == EncodeElems(v.a)
            IN  [ok |-> e.ok, text |-> <<"[">> \o e.text \o <<"]">>]
      [] v.t = "object" ->
            LET e == EncodeMembers(v.o)
            IN  [ok |-> e.ok, text |-> <<"{">> \o e.text \o <<"}">>]
      [] OTHER -> [ok |-> FALSE, text |-> <<>>]

EncodeElems(a) ==
    IF a = <<>> THEN [ok |-> TRUE, text |-> <<>>]
    ELSE LET h == IF Head(a).t = "undefined" THEN Encode(Null)
                  ELSE Encode(Head(a))
             r == EncodeElems(Tail(a))
         IN  [ok |-> h.ok /\ r.ok,
              text |-> IF Tail(a) = <<>> THEN h.text
                       ELSE h.text \o <<",">> \o r.text]

EncodeMembers(o) ==
    IF o = <<>> THEN [ok |-> TRUE, text |-> <<>>]
    ELSE IF Head(o).v.t = "undefined" THEN EncodeMembers(Tail(o))
    ELSE LET h == Encode(Head(o).v)
             r == EncodeMembers(Tail(o))
         IN  [ok |-> h.ok /\ r.ok,
              text |-> <<Quote(Head(o).k), ":">> \o h.text
                       \o (IF r.text = <<>> THEN <<>> ELSE <<",">> \o r.text)]

JsonStringify(v) == Encode(v)

\* JSON.parse(text), by recursive descent: [ok, v, rest].  ok = FALSE is a
\* SyntaxError.
ParseFail == [ok |-> FALSE, v |-> Undef, rest |-> <<>>]
ParseOk(v, rest) == [ok |-> TRUE, v |-> v, rest |-> rest]

RECURSIVE ParseValue(_), ParseElems(_, _), ParseMembers(_, _)
ParseValue(ts) ==
    IF ts = <<>> THEN ParseFail
    ELSE LET h == Head(ts)
             r == Tail(ts)
         IN  CASE h = "null" -> ParseOk(Null, r)
               [] h = "true" -> ParseOk(Bool(TRUE), r)
               [] h = "false" -> ParseOk(Bool(FALSE), r)
               [] h = "[" ->
                     IF r # <<>> /\ Head(r) = "]" THEN ParseOk(Arr(<<>>), Tail(r))
                     ELSE ParseElems(r, <<>>)
               [] h = "{" ->
                     IF r # <<>> /\ Head(r) = "}" THEN ParseOk(Obj(<<>>), Tail(r))
                     ELSE ParseMembers(r, <<>>)
               [] IsNumTok(h) -> ParseOk(Num(StrToNum(h)), r)
               [] IsStrTok(h) -> ParseOk(Str(Unquote(h)), r)
               [] OTHER -> ParseFail

ParseElems(ts, acc) ==
    LET p == ParseValue(ts)
    IN  IF ~p.ok \/ p.rest = <<>> THEN ParseFail
        ELSE IF Head(p.rest) = "]" THEN ParseOk(Arr(Append(acc, p.v)), Tail(p.rest))
        ELSE IF Head(p.rest) = "," THEN ParseElems(Tail(p.rest), Append(acc, p.v))
        ELSE ParseFail

ParseMembers(ts, acc) ==
    IF Len(ts) < 3 \/ ~IsStrTok(ts[1]) \/ ts[2] # ":" THEN ParseFail
    ELSE LET p == ParseValue(Tail(Tail(ts)))
             m == Append(acc, Member(Unquote(ts[1]), p.v))
         IN  IF ~p.ok \/ p.rest = <<>> THEN ParseFail
             ELSE IF Head(p.rest) = "}" THEN ParseOk(Obj(m), Tail(p.rest))
             ELSE IF Head(p.rest) = "," THEN ParseMembers(Tail(p.rest), m)
             ELSE ParseFail

\* The whole text must be one JSON value.
JsonParse(text) ==
    LET p == ParseValue(text)
    IN  IF p.ok /\ p.rest = <<>> THEN [ok |-> TRUE, v |-> p.v]
        ELSE [ok |-> FALSE, v |-> Undef]

\* ------------------------------------------------------ the client's methods

\* One public method of PaperlessClient: its name, the operation and resource
\* its name and return type spell, and what its body passes to request():
\* the HTTP method, the path (prefix, then `${id}/` when idInPath), whether
\* the record argument is passed as body, and whether the method awaits
\* request() and returns nothing rather than returning its promise.
Method(name, op, res, verb, prefix, idInPath, body, awaited) ==
    [name |-> name, op |-> op, res |-> res, verb |-> verb, prefix |-> prefix,
     idInPath |-> idInPath, body |-> body, awaited |-> awaited]

Methods ==
    { Method("getDocuments", "list", "Document", "GET", "/api/documents/", FALSE, FALSE, FALSE),
      Method("getDocument", "get", "Document", "GET", "/api/documents/", TRUE, FALSE, FALSE),
      Method("createDocument", "create", "Document", "POST", "/api/documents/", FALSE, TRUE, FALSE),
      Method("updateDocument", "update", "Document", "PATCH", "/api/documents/", TRUE, TRUE, FALSE),
      Method("deleteDocument", "delete", "Document", "DELETE", "/api/documents/", TRUE, FALSE, TRUE),
      Method("getTags", "list", "Tag", "GET", "/api/tags/", FALSE, FALSE, FALSE),
      Method("getTag", "get", "Tag", "GET", "/api/tags/", TRUE, FALSE, FALSE),
      Method("createTag", "create", "Tag", "POST", "/api/tags/", FALSE, TRUE, FALSE),
      Method("updateTag", "update", "Tag", "PATCH", "/api/tags/", TRUE, TRUE, FALSE),
      Method("deleteTag", "delete", "Tag", "DELETE", "/api/tags/", TRUE, FALSE, TRUE),
      Method("getCorrespondents", "list", "Correspondent", "GET", "/api/correspondents/", FALSE, FALSE, FALSE),
      Method("getCorrespondent", "get", "Correspondent", "GET", "/api/correspondents/", TRUE, FALSE, FALSE),
      Method("createCorrespondent", "create", "Correspondent", "POST", "/api/correspondents/", FALSE, TRUE, FALSE),
      Method("updateCorrespondent", "update", "Correspondent", "PATCH", "/api/correspondents/", TRUE, TRUE, FALSE),
      Method("deleteCorrespondent", "delete", "Correspondent", "DELETE", "/api/correspondents/", TRUE, FALSE, TRUE),
      Method("getDocumentTypes", "list", "DocumentType", "GET", "/api/document_types/", FALSE, FALSE, FALSE),
      Method("getDocumentType", "get", "DocumentType", "GET", "/api/document_types/", TRUE, FALSE, FALSE),
      Method("createDocumentType", "create", "DocumentType", "POST", "/api/document_types/", FALSE, TRUE, FALSE),
      Method("updateDocumentType", "update", "DocumentType", "PATCH", "/api/document_types/", TRUE, TRUE, FALSE),
      Method("deleteDocumentType", "delete", "DocumentType", "DELETE", "/api/document_types/", TRUE, FALSE, TRUE),
      Method("getCustomFields", "list", "CustomField", "GET", "/api/custom_fields/", FALSE, FALSE, FALSE),
      Method("getCustomField", "get", "CustomField", "GET", "/api/custom_fields/", TRUE, FALSE, FALSE),
      Method("createCustomField", "create", "CustomField", "POST", "/api/custom_fields/", FALSE, TRUE, FALSE),
      Method("updateCustomField", "update", "CustomField", "PATCH", "/api/custom_fields/", TRUE, TRUE, FALSE),
      Method("deleteCustomField", "delete", "CustomField", "DELETE", "/api/custom_fields/", TRUE, FALSE, TRUE),
      Method("getUsers", "list", "User", "GET", "/api/users/", FALSE, FALSE, FALSE),
      Method("getUser", "get", "User", "GET", "/api/users/", TRUE, FALSE, FALSE),
      Method("createUser", "create", "User", "POST", "/api/users/", FALSE, TRUE, FALSE),
      Method("updateUser", "update", "User", "PATCH", "/api/users/", TRUE, TRUE, FALSE),
      Method("deleteUser", "delete", "User", "DELETE", "/api/users/", TRUE, FALSE, TRUE),
      Method("getGroups", "list", "Group", "GET", "/api/groups/", FALSE, FALSE, FALSE),
      Method("getGroup", "get", "Group", "GET", "/api/groups/", TRUE, FALSE, FALSE),
      Method("createGroup", "create", "Group", "POST", "/api/groups/", FALSE, TRUE, FALSE),
      Method("updateGroup", "update", "Group", "PATCH", "/api/groups/", TRUE, TRUE, FALSE),
      Method("deleteGroup", "delete", "Group", "DELETE", "/api/groups/", TRUE, FALSE, TRUE),
      Method("getShareLinks", "list", "ShareLink", "GET", "/api/share_links/", FALSE, FALSE, FALSE),
      Method("getShareLink", "get", "ShareLink", "GET", "/api/share_links/", TRUE, FALSE, FALSE),
      Method("createShareLink", "create", "ShareLink", "POST", "/api/share_links/", FALSE, TRUE, FALSE),
      Method("deleteShareLink", "delete", "ShareLink", "DELETE", "/api/share_links/", TRUE, FALSE, TRUE),
      Method("getStoragePaths", "list", "StoragePath", "GET", "/api/storage_paths/", FALSE, FALSE, FALSE),
      Method("getStoragePath", "get", "StoragePath", "GET", "/api/storage_paths/", TRUE, FALSE, FALSE),
      Method("createStoragePath", "create", "StoragePath", "POST", "/api/storage_paths/", FALSE, TRUE, FALSE),
      Method("updateStoragePath", "update", "StoragePath", "PATCH", "/api/storage_paths/", TRUE, TRUE, FALSE),
      Method("deleteStoragePath", "delete", "StoragePath", "DELETE", "/api/storage_paths/", TRUE, FALSE, TRUE),
      Method("getWorkflows", "list", "Workflow", "GET", "/api/workflows/", FALSE, FALSE, FALSE),
      Method("getWorkflow", "get", "Workflow", "GET", "/api/workflows/", TRUE, FALSE, FALSE),
      Method("createWorkflow", "create", "Workflow", "POST", "/api/workflows/", FALSE, TRUE, FALSE),
      Method("updateWorkflow", "update", "Workflow", "PATCH", "/api/workflows/", TRUE, TRUE, FALSE),
      Method("deleteWorkflow", "delete", "Workflow", "DELETE", "/api/workflows/", TRUE, FALSE, TRUE) }

MethodNamed(n) == CHOOSE m \in Methods : m.name = n

\* ------------------------------------------------------------------ inputs

\* Constructor arguments.
Configs ==
    { [baseUrl |-> "http://localhost:8000", token |-> "abc123"],
      [baseUrl |-> "https://paperless.example/", token |-> ""] }

Ids == 0 .. MaxId

\* Partial<T> values a caller passes to create/update, per resource.  Every
\* resource admits the record with no field set; Workflow alone has a field
\* of type Record<string, any>, which admits a cyclic value.
NameField ==
    [r \in {m.res : m \in Methods} |->
        CASE r = "Document" -> Member("title", Str("Invoice"))
          [] r = "User" -> Member("username", Str("inbox"))
          [] r = "StoragePath" -> Member("path", Str("inbox"))
          [] r = "ShareLink" -> Member("document", Num(5))
          [] OTHER -> Member("name", Str("inbox"))]

Partials ==
    [r \in {m.res : m \in Methods} |->
        { Obj(<<>>), Obj(<<NameField[r]>>) }
        \cup (IF r = "Document"
              THEN { Obj(<<Member("title", Undef),
                           Member("tags", Arr(<<Num(3), Num(5)>>)),
                           Member("correspondent", Null)>>) }
              ELSE {})
        \cup (IF r = "Workflow"
              THEN { Obj(<<Member("actions",
                       Arr(<<Obj(<<Member("parameters", Cyclic)>>)>>))>>) }
              ELSE {})]

\* Status lines a server may answer with.
StatusLine(status, statusText) == [status |-> status, statusText |-> statusText]
Heads ==
    { StatusLine(200, "OK"), StatusLine(201, "Created"), StatusLine(204, "No Content"),
      StatusLine(299, ""), StatusLine(300, "Multiple Choices"), StatusLine(404, "Not Found"),
      StatusLine(404, ""), StatusLine(500, "Internal Server Error") }

\* Response bodies a server may send: JSON values of several shapes, the
\* empty body, and texts that are not one JSON value.
Bodies ==
    { <<>>,
      <<"{", "\"id\"", ":", "5", ",", "\"title\"", ":", "\"Invoice\"", "}">>,
      <<"[", "]">>,
      <<"[", "{", "\"id\"", ":", "3", "}", ",", "{", "\"id\"", ":", "5", "}", "]">>,
      <<"12">>,
      <<"null">>,
      <<"{", "\"detail\"", ":">>,
      <<"{", "}", "{", "}">>,
      <<"<html>">> }

\* What a caller and the environment may do: `All` for one call at a time,
\* `Few` for calls that overlap.
All ==
    [methods |-> Methods, ids |-> Ids, partials |-> Partials,
     heads |-> Heads, bodies |-> Bodies]
Few ==
    [methods |-> { MethodNamed("getTags"), MethodNamed("getDocument"),
                   MethodNamed("createTag"), MethodNamed("updateWorkflow"),
                   MethodNamed("deleteTag") },
     ids |-> {MaxId},
     partials |-> [r \in DOMAIN Partials |-> Partials[r] \ { Obj(<<>>) }],
     heads |-> { StatusLine(204, "No Content"), StatusLine(404, "Not Found") },
     bodies |-> { <<>>, <<"{", "\"id\"", ":", "5", "}">> }]

\* ------------------------------------------------------------------- state

VARIABLES
    ctorArgs,   \* the arguments the constructor was called with
    baseUrl,    \* this.baseUrl
    token,      \* this.token
    pc,         \* per call: where its async function stands
    call,       \* per call: the method invoked and its arguments
    sent,       \* per call: the requests it has handed to fetch, in order
    net,        \* per call: what the transport has delivered for its fetch
    body,       \* per call: the state of the response body stream
    outcome,    \* per call: the state of the promise the method returned
    settled     \* per call: how many times that promise was settled

vars == <<ctorArgs, baseUrl, token, pc, call, sent, net, body, outcome, settled>>

Calls == 1 .. MaxCalls

NoCall == [name |-> "", id |-> Undef, rec |-> Undef]
Pending == [state |-> "pending"]
Fulfilled(v) == [state |-> "fulfilled", value |-> v]
Rejected(e) == [state |-> "rejected", reason |-> e]

\* Errors: the one the client constructs, and those of the platform.
Error(message) == [name |-> "Error", message |-> message]
FetchTypeError == [name |-> "TypeError", message |-> "fetch failed"]
CyclicTypeError ==
    [name |-> "TypeError", message |-> "Converting circular structure to JSON"]
JsonSyntaxError == [name |-> "SyntaxError", message |-> "Unexpected token"]

Init ==
    /\ ctorArgs \in Configs
    /\ baseUrl = ctorArgs.baseUrl
    /\ token = ctorArgs.token
    /\ pc = [c \in Calls |-> "idle"]
    /\ call = [c \in Calls |-> NoCall]
    /\ sent = [c \in Calls |-> <<>>]
    /\ net = [c \in Calls |-> [s |-> "none"]]
    /\ body = [c \in Calls |-> [s |-> "unread"]]
    /\ outcome = [c \in Calls |-> Pending]
    /\ settled = [c \in Calls |-> 0]

\* ----------------------------------------------------------------- request

\* Mutant of ok: redirections counted as success.
okBelow400(status) == 200 <= status /\ status < 400

\* response.ok: the status is in the range 200-299.
ok(status) == 200 <= status /\ status <= 299

\* Mutant of Headers: the Bearer scheme instead of Token.
HeadersBearer(tok) ==
    { <<"Authorization", "Bearer " \o tok>>,
      <<"Content-Type", "application/json">> }

\* The headers of the RequestInit.
Headers(tok) ==
    { <<"Authorization", "Token " \o tok>>,
      <<"Content-Type", "application/json">> }

\* Mutant of RequestBody: a record with no field set is sent as no body.
RequestBodySkipEmpty(b) ==
    IF Truthy(b) /\ b # Obj(<<>>)
    THEN LET e == JsonStringify(b)
         IN  [ok |-> e.ok, body |-> [t |-> "text", text |-> e.text]]
    ELSE [ok |-> TRUE, body |-> Undef]

\* body ? JSON.stringify(body) : undefined
RequestBody(b) ==
    IF Truthy(b)
    THEN LET e == JsonStringify(b)
         IN  [ok |-> e.ok, body |-> [t |-> "text", text |-> e.text]]
    ELSE [ok |-> TRUE, body |-> Undef]

\* Mutant of FailureMessage: the status text is left out.
FailureMessageNoText(status, statusText) ==
    "Request failed: " \o NumToStr(status)

\* The message of the error thrown on a response that is not ok.
FailureMessage(status, statusText) ==
    "Request failed: " \o NumToStr(status) \o " " \o statusText

\* The path a method passes to request().
Path(m, id) ==
    IF m.idInPath THEN m.prefix \o NumToStr(id.n) \o "/" ELSE m.prefix

\* Mutant of MethodResult: every method awaits request() and returns nothing.
MethodResultAwaited(m, o) ==
    IF o.state = "fulfilled" THEN Fulfilled(Undef) ELSE o

\* What the method's own promise settles to once request()'s has: a method
\* that returns request()'s promise adopts its value; one that awaits it
\* resolves to undefined.  A rejection passes through either way.
MethodResult(m, o) ==
    IF o.state = "fulfilled" /\ m.awaited THEN Fulfilled(Undef) ELSE o

Settle(c, m, o) ==
    /\ pc' = [pc EXCEPT ![c] = "done"]
    /\ outcome' = [outcome EXCEPT ![c] = MethodResult(m, o)]
    /\ settled' = [settled EXCEPT ![c] = @ + 1]

\* Mutant of request: the URL is built by appending the path to this.baseUrl
\* in place.
requestAppendingToBaseUrl(c, m, method, path, b) ==
    /\ baseUrl' = baseUrl \o path
    /\ sent' = [sent EXCEPT ![c] =
            Append(@, [url |-> baseUrl', method |-> method,
                       headers |-> Headers(token), body |-> RequestBody(b).body])]
    /\ net' = [net EXCEPT ![c] = [s |-> "inflight"]]
    /\ pc' = [pc EXCEPT ![c] = "awaitFetch"]
    /\ UNCHANGED <<ctorArgs, token, body, outcome, settled>>

\* request(method, path, body), called by method m for call c, up to its
\* first await: build the RequestInit
\* and call fetch.  If JSON.stringify throws, request() rejects before fetch
\* is called.
request(c, m, method, path, b) ==
    LET rb == RequestBody(b)
    IN  /\ IF rb.ok
           THEN /\ sent' = [sent EXCEPT ![c] =
                       Append(@, [url |-> baseUrl \o path, method |-> method,
                                  headers |-> Headers(token), body |-> rb.body])]
                /\ net' = [net EXCEPT ![c] = [s |-> "inflight"]]
                /\ pc' = [pc EXCEPT ![c] = "awaitFetch"]
                /\ UNCHANGED <<outcome, settled>>
           ELSE /\ Settle(c, m, Rejected(CyclicTypeError))
                /\ UNCHANGED <<sent, net>>
        /\ UNCHANGED <<ctorArgs, baseUrl, token, body>>

\* A caller invokes method m with the given arguments (on a free slot).
Invoke(c, m, id, rec) ==
    /\ call' = [call EXCEPT ![c] = [name |-> m.name, id |-> id, rec |-> rec]]
    /\ request(c, m, m.verb, Path(m, id), IF m.body THEN rec ELSE Undef)

\* get<Resource>s()
List(c, I) ==
    /\ pc[c] = "idle"
    /\ \E m \in I.methods : m.op = "list" /\ Invoke(c, m, Undef, Undef)

\* get<Resource>(id)
Get(c, I) ==
    /\ pc[c] = "idle"
    /\ \E m \in I.methods, id \in I.ids :
        m.op = "get" /\ Invoke(c, m, Num(id), Undef)

\* create<Resource>(record)
Create(c, I) ==
    /\ pc[c] = "idle"
    /\ \E m \in I.methods : m.op = "create" /\
        \E rec \in I.partials[m.res] : Invoke(c, m, Undef, rec)

\* update<Resource>(id, record)
Update(c, I) ==
    /\ pc[c] = "idle"
    /\ \E m \in I.methods, id \in I.ids : m.op = "update" /\
        \E rec \in I.partials[m.res] : Invoke(c, m, Num(id), rec)

\* delete<Resource>(id)
Delete(c, I) ==
    /\ pc[c] = "idle"
    /\ \E m \in I.methods, id \in I.ids :
        m.op = "delete" /\ Invoke(c, m, Num(id), Undef)

\* The transport delivers a response's status line: fetch's promise resolves.
Respond(c, I) ==
    /\ net[c].s = "inflight"
    /\ \E h \in I.heads :
        net' = [net EXCEPT ![c] =
                   [s |-> "response", status |-> h.status,
                    statusText |-> h.statusText]]
    /\ UNCHANGED <<ctorArgs, baseUrl, token, pc, call, sent, body, outcome, settled>>

\* The transport fails the request: fetch's promise rejects.
NetworkError(c) ==
    /\ net[c].s = "inflight"
    /\ net' = [net EXCEPT ![c] = [s |-> "error"]]
    /\ UNCHANGED <<ctorArgs, baseUrl, token, pc, call, sent, body, outcome, settled>>

\* Mutant of AfterFetch: a transport failure or a server error is retried
\* once before it is reported.
AfterFetchRetry(c) ==
    /\ pc[c] = "awaitFetch"
    /\ net[c].s \in {"response", "error"}
    /\ IF Len(sent[c]) < 2 /\ (net[c].s = "error" \/ net[c].status >= 500)
       THEN /\ sent' = [sent EXCEPT ![c] = Append(@, sent[c][1])]
            /\ net' = [net EXCEPT ![c] = [s |-> "inflight"]]
            /\ UNCHANGED <<pc, body, outcome, settled>>
       ELSE /\ UNCHANGED <<sent, net>>
            /\ IF net[c].s = "error"
               THEN /\ Settle(c, MethodNamed(call[c].name), Rejected(FetchTypeError))
                    /\ UNCHANGED body
               ELSE IF ~ok(net[c].status)
               THEN /\ Settle(c, MethodNamed(call[c].name), Rejected(Error(
                            FailureMessage(net[c].status, net[c].statusText))))
                    /\ UNCHANGED body
               ELSE /\ pc' = [pc EXCEPT ![c] = "awaitJson"]
                    /\ body' = [body EXCEPT ![c] = [s |-> "reading"]]
                    /\ UNCHANGED <<outcome, settled>>
    /\ UNCHANGED <<ctorArgs, baseUrl, token, call>>

\* Mutant of AfterFetch: request() gives up on a fetch that has not answered.
AfterFetchTimeout(c) ==
    /\ pc[c] = "awaitFetch"
    /\ IF net[c].s \in {"inflight", "error"}
       THEN Settle(c, MethodNamed(call[c].name), Rejected(FetchTypeError))
            /\ UNCHANGED body
       ELSE IF ~ok(net[c].status)
       THEN /\ Settle(c, MethodNamed(call[c].name), Rejected(Error(
                    FailureMessage(net[c].status, net[c].statusText))))
            /\ UNCHANGED body
       ELSE /\ pc' = [pc EXCEPT ![c] = "awaitJson"]
            /\ body' = [body EXCEPT ![c] = [s |-> "reading"]]
            /\ UNCHANGED <<outcome, settled>>
    /\ UNCHANGED <<ctorArgs, baseUrl, token, call, sent, net>>

\* request() resumes after `await fetch(...)`: a rejection propagates; a
\* response that is not ok throws; otherwise response.json() starts reading
\* the body and request() waits for it.
AfterFetch(c) ==
    /\ pc[c] = "awaitFetch"
    /\ net[c].s \in {"response", "error"}
    /\ IF net[c].s = "error"
       THEN Settle(c, MethodNamed(call[c].name), Rejected(FetchTypeError)) /\ UNCHANGED body
       ELSE IF ~ok(net[c].status)
       THEN /\ Settle(c, MethodNamed(call[c].name), Rejected(Error(
                    FailureMessage(net[c].status, net[c].statusText))))
            /\ UNCHANGED body
       ELSE /\ pc' = [pc EXCEPT ![c] = "awaitJson"]
            /\ body' = [body EXCEPT ![c] = [s |-> "reading"]]
            /\ UNCHANGED <<outcome, settled>>
    /\ UNCHANGED <<ctorArgs, baseUrl, token, call, sent, net>>

\* The transport delivers the whole response body.
BodyArrives(c, I) ==
    /\ body[c].s = "reading"
    /\ \E t \in I.bodies : body' = [body EXCEPT ![c] = [s |-> "text", text |-> t]]
    /\ UNCHANGED <<ctorArgs, baseUrl, token, pc, call, sent, net, outcome, settled>>

\* The transport fails while the body is being read.
BodyError(c) ==
    /\ body[c].s = "reading"
    /\ body' = [body EXCEPT ![c] = [s |-> "error"]]
    /\ UNCHANGED <<ctorArgs, baseUrl, token, pc, call, sent, net, outcome, settled>>

\* response.json() settles and request() returns: the parsed value, or the
\* rejection of response.json().
AfterJson(c) ==
    /\ pc[c] = "awaitJson"
    /\ body[c].s \in {"text", "error"}
    /\ IF body[c].s = "error"
       THEN Settle(c, MethodNamed(call[c].name), Rejected(FetchTypeError))
       ELSE LET p == JsonParse(body[c].text)
            IN  IF p.ok THEN Settle(c, MethodNamed(call[c].name), Fulfilled(p.v))
                ELSE Settle(c, MethodNamed(call[c].name), Rejected(JsonSyntaxError))
    /\ UNCHANGED <<ctorArgs, baseUrl, token, call, sent, net, body>>

\* The caller has observed the outcome; the call's bookkeeping is dropped.
Return(c) ==
    /\ pc[c] = "done"
    /\ pc' = [pc EXCEPT ![c] = "idle"]
    /\ call' = [call EXCEPT ![c] = NoCall]
    /\ sent' = [sent EXCEPT ![c] = <<>>]
    /\ net' = [net EXCEPT ![c] = [s |-> "none"]]
    /\ body' = [body EXCEPT ![c] = [s |-> "unread"]]
    /\ outcome' = [outcome EXCEPT ![c] = Pending]
    /\ settled' = [settled EXCEPT ![c] = 0]
    /\ UNCHANGED <<ctorArgs, baseUrl, token>>

\* One call at a time: the caller awaits each call before the next.
Next ==
    \E c \in {1} :
        \/ List(c, All)
        \/ Get(c, All)
        \/ Create(c, All)
        \/ Update(c, All)
        \/ Delete(c, All)
        \/ Respond(c, All)
        \/ NetworkError(c)
        \/ AfterFetch(c)
        \/ BodyArrives(c, All)
        \/ BodyError(c)
        \/ AfterJson(c)
        \/ Return(c)

Spec == Init /\ [][Next]_vars

\* Up to MaxCalls calls in flight at once, their steps interleaved.
ConcNext ==
    \E c \in Calls :
        \/ List(c, Few)
        \/ Get(c, Few)
        \/ Create(c, Few)
        \/ Update(c, Few)
        \/ Delete(c, Few)
        \/ Respond(c, Few)
        \/ NetworkError(c)
        \/ AfterFetch(c)
        \/ BodyArrives(c, Few)
        \/ BodyError(c)
        \/ AfterJson(c)
        \/ Return(c)

ConcSpec == Init /\ [][ConcNext]_vars

\* -------------------------------------------------- fairness for liveness

\* Overlapping calls of two methods, one that returns request()'s promise
\* and one that awaits it; request() runs the same way for every method.
Two ==
    [methods |-> { MethodNamed("updateWorkflow"), MethodNamed("deleteTag") },
     ids |-> Few.ids, partials |-> Few.partials,
     heads |-> Few.heads, bodies |-> Few.bodies]

LiveNext ==
    \E c \in Calls :
        \/ Update(c, Two)
        \/ Delete(c, Two)
        \/ Respond(c, Two)
        \/ NetworkError(c)
        \/ AfterFetch(c)
        \/ BodyArrives(c, Two)
        \/ BodyError(c)
        \/ AfterJson(c)
        \/ Return(c)

\* The event loop runs the continuation of every settled promise; nothing
\* obliges the transport to answer.
LiveInit == Init /\ ctorArgs.token = "abc123"

LiveSpec ==
    /\ LiveInit
    /\ [][LiveNext]_vars
    /\ \A c \in Calls : WF_vars(AfterFetch(c)) /\ WF_vars(AfterJson(c))

\* ------------------------------------------- the documented interface

\* The ten documented resource kinds, with the record type each one carries.
KindOf ==
    [documents |-> "Document", tags |-> "Tag", correspondents |-> "Correspondent",
     document_types |-> "DocumentType", custom_fields |-> "CustomField",
     users |-> "User", groups |-> "Group", share_links |-> "ShareLink",
     storage_paths |-> "StoragePath", workflows |-> "Workflow"]
Kinds == DOMAIN KindOf
Ops == {"list", "get", "create", "update", "delete"}

DocumentedVerb ==
    [list |-> "GET", get |-> "GET", create |-> "POST", update |-> "PATCH",
     delete |-> "DELETE"]

\* Decimal text of the ids in use, written out.
IdText ==
    [n \in 0 .. 13 |->
        <<"0", "1", "2", "3", "4", "5", "6", "7", "8", "9",
          "10", "11", "12", "13">>[n + 1]]

\* /api/<kind>/ for list and create, /api/<kind>/{id}/ for the others.
DocumentedPath(kind, op, id) ==
    IF op \in {"list", "create"} THEN "/api/" \o kind \o "/"
    ELSE "/api/" \o kind \o "/" \o IdText[id.n] \o "/"

KindOfMethod(m) == CHOOSE k \in Kinds : KindOf[k] = m.res

\* The request call c sent uses the documented method and path of its
\* operation, under the base URL given at construction.
UsesDocumentedRoute(c) ==
    LET m == MethodNamed(call[c].name)
    IN  \A i \in 1 .. Len(sent[c]) :
            /\ sent[c][i].method = DocumentedVerb[m.op]
            /\ sent[c][i].url =
                   ctorArgs.baseUrl \o DocumentedPath(KindOfMethod(m), m.op, call[c].id)

\* The client offers operation op on kind to a caller with a free slot.
Offers(c, kind, op) ==
    /\ pc[c] = "idle"
    /\ \E m \in Methods :
        /\ m.res = KindOf[kind]
        /\ m.op = op
        /\ Invoke(c, m, IF m.idInPath THEN Num(MaxId) ELSE Undef,
                  IF m.body THEN Obj(<<>>) ELSE Undef)

SuccessRange == 200 .. 299

\* A freshly constructed client, or one whose calls have all returned.
NoCallInFlight == \A c \in Calls : pc[c] = "idle"

\* ------------------------------------------------------------------ claims

\* C1: for each of the ten resource kinds the client offers all five
\* operations (list, get-by-id, create, update, delete), and each request
\* uses the documented method and the documented path under the base URL.
C1_EveryKindOffersFiveOperations ==
    /\ NoCallInFlight =>
           \A c \in Calls, kind \in Kinds, op \in Ops : ENABLED Offers(c, kind, op)
    /\ \A c \in Calls : pc[c] # "idle" => UsesDocumentedRoute(c)

\* C1, the part the code meets: every operation the client does offer uses
\* the documented method and path, and the only documented operation it
\* does not offer is update on share_links.
C1_OfferedOperationsUseDocumentedRoute ==
    /\ NoCallInFlight =>
           \A c \in Calls, kind \in Kinds, op \in Ops :
               (ENABLED Offers(c, kind, op))
                   <=> ~(kind = "share_links" /\ op = "update")
    /\ \A c \in Calls : pc[c] # "idle" => UsesDocumentedRoute(c)

\* C2 as stated: every call, whatever its arguments, has issued exactly one
\* request from the moment it is made, and never a second one.
C2_ExactlyOneRequestPerCall ==
    \A c \in Calls : pc[c] # "idle" => Len(sent[c]) = 1

\* The one record of the model that JSON.stringify cannot encode.
Unencodable ==
    Obj(<<Member("actions", Arr(<<Obj(<<Member("parameters", Cyclic)>>)>>))>>)

\* C2, amended: a call never issues a second request, not after a failure
\* response nor after a transport failure, and it issues exactly one unless
\* its record cannot be JSON-encoded; then it issues none and fails at once
\* with the encoder's error.  A failure is the outcome of the same call.
C2_AtMostOneRequestNoRetry ==
    \A c \in Calls :
        /\ Len(sent[c]) <= 1
        /\ pc[c] # "idle" =>
               IF call[c].rec = Unencodable
               THEN /\ Len(sent[c]) = 0
                    /\ pc[c] = "done"
                    /\ outcome[c] = Rejected(CyclicTypeError)
               ELSE Len(sent[c]) = 1
        /\ ( /\ pc[c] = "done"
             /\ \/ net[c].s = "error"
                \/ net[c].s = "response" /\ net[c].status \notin SuccessRange )
           => outcome[c].state = "rejected" /\ Len(sent[c]) = 1

\* C2 witness: a call that failed on a 500 response and sent one request.
C2_Witness ==
    \E c \in Calls :
        /\ pc[c] = "done"
        /\ net[c].s = "response" /\ net[c].status = 500
        /\ outcome[c].state = "rejected"
        /\ Len(sent[c]) = 1

\* C3: every request sent, for any method, carries Authorization equal to
\* "Token " followed by the construction-time token verbatim, and
\* Content-Type equal to application/json.
ExpectedAuthorization ==
    [tok \in {"abc123", ""} |-> IF tok = "abc123" THEN "Token abc123" ELSE "Token "]

C3_AuthorizationAndContentType ==
    \A c \in Calls : \A i \in 1 .. Len(sent[c]) :
        sent[c][i].headers =
            { <<"Authorization", ExpectedAuthorization[ctorArgs.token]>>,
              <<"Content-Type", "application/json">> }

\* C3 witness: a PATCH request was sent by a client built with "abc123".
C3_Witness ==
    \E c \in Calls :
        /\ ctorArgs.token = "abc123"
        /\ Len(sent[c]) = 1
        /\ sent[c][1].method = "PATCH"
        /\ <<"Authorization", "Token abc123">> \in sent[c][1].headers


\* The error message the documentation gives for each failure status line.
DocumentedFailure(status, statusText) ==
    CASE status = 300 /\ statusText = "Multiple Choices" ->
            "Request failed: 300 Multiple Choices"
      [] status = 404 /\ statusText = "Not Found" -> "Request failed: 404 Not Found"
      [] status = 404 /\ statusText = "" -> "Request failed: 404 "
      [] status = 500 /\ statusText = "Internal Server Error" ->
            "Request failed: 500 Internal Server Error"

FailedByStatus(c) ==
    net[c].s = "response" /\ net[c].status \notin SuccessRange

\* C4: a response whose status is not in the success range fails the call
\* with an error carrying exactly that status code and status text, and the
\* response body is never read for that call.
C4_FailureCarriesStatusBodyUnread ==
    \A c \in Calls :
        FailedByStatus(c) =>
            /\ body[c].s = "unread"
            /\ pc[c] = "done" =>
                   outcome[c] = Rejected(
                       [name |-> "Error",
                        message |-> DocumentedFailure(net[c].status, net[c].statusText)])

\* C4 witness: a call failed on a 404 response that has no status text.
C4_Witness ==
    \E c \in Calls :
        /\ pc[c] = "done"
        /\ net[c].s = "response" /\ net[c].status = 404 /\ net[c].statusText = ""
        /\ outcome[c].state = "rejected"
        /\ body[c].s = "unread"

\* The value each well-formed response body of the model denotes.
ExpectedJson ==
    <<"{", "\"id\"", ":", "5", ",", "\"title\"", ":", "\"Invoice\"", "}">> :>
        Obj(<<Member("id", Num(5)), Member("title", Str("Invoice"))>>)
    @@ <<"[", "]">> :> Arr(<<>>)
    @@ <<"[", "{", "\"id\"", ":", "3", "}", ",", "{", "\"id\"", ":", "5", "}", "]">> :>
        Arr(<<Obj(<<Member("id", Num(3))>>), Obj(<<Member("id", Num(5))>>)>>)
    @@ <<"12">> :> Num(12)
    @@ <<"null">> :> Null
    @@ <<"{", "\"id\"", ":", "5", "}">> :> Obj(<<Member("id", Num(5))>>)

SucceededWithBody(c) ==
    /\ pc[c] = "done"
    /\ net[c].s = "response" /\ net[c].status \in SuccessRange
    /\ body[c].s = "text"

IsDelete(c) == MethodNamed(call[c].name).op = "delete"

\* C5 as stated: on a success status a list, get-by-id, create or update call
\* resolves to the JSON value parsed from the response body.
C5_SuccessResolvesToBody ==
    \A c \in Calls :
        (SucceededWithBody(c) /\ ~IsDelete(c)) => outcome[c].state = "fulfilled"

\* C5, amended: on a success status whose body is valid JSON, a list,
\* get-by-id, create or update call resolves to the value parsed from the
\* whole body, unmodified, whatever its shape; a body that is not one JSON
\* value fails the call instead.
C5_SuccessResolvesToParsedJson ==
    \A c \in Calls :
        (SucceededWithBody(c) /\ ~IsDelete(c)) =>
            IF body[c].text \in DOMAIN ExpectedJson
            THEN /\ outcome[c] = Fulfilled(ExpectedJson[body[c].text])
                 /\ JsonStringify(outcome[c].value).text = body[c].text
            ELSE outcome[c].state = "rejected"

\* C5 witness: an update call answered 200 with a bare number resolved to it.
C5_Witness ==
    \E c \in Calls :
        /\ SucceededWithBody(c)
        /\ MethodNamed(call[c].name).op = "update"
        /\ net[c].status = 200
        /\ body[c].text = <<"12">>
        /\ outcome[c] = Fulfilled(Num(12))

\* C6: a delete call that receives a success status, 204 with an empty body
\* included, resolves with no value; it fails only on a non-success status,
\* and then carries that status.
C6_DeleteResolvesOnSuccess ==
    \A c \in Calls :
        (pc[c] = "done" /\ IsDelete(c) /\ net[c].s = "response") =>
            /\ SucceededWithBody(c) => outcome[c] = Fulfilled(Undef)
            /\ (outcome[c].state = "rejected" /\ body[c].s # "error") =>
                   /\ net[c].status \notin SuccessRange
                   /\ outcome[c].reason.message =
                          DocumentedFailure(net[c].status, net[c].statusText)

\* C7 as stated: every call that fails after sending its request, for
\* whatever cause (client error status, server error status, transport
\* failure, or a success response whose body is not valid JSON), fails with
\* the request-failure error carrying a status code and status text.
C7_SingleErrorKind ==
    \A c \in Calls :
        (pc[c] = "done" /\ outcome[c].state = "rejected" /\ Len(sent[c]) = 1) =>
            /\ outcome[c].reason.name = "Error"
            /\ \E h \in Heads :
                   /\ h.status \notin SuccessRange
                   /\ outcome[c].reason.message =
                          DocumentedFailure(h.status, h.statusText)

\* C7, amended: the client raises one error kind of its own, the request
\* failure carrying status code and text, for every non-success status,
\* client and server errors alike.  Every other failure is the platform's
\* error passed through, carrying no status: the transport's TypeError for
\* a network failure (before or while the body arrives), the parser's
\* SyntaxError for a success response whose body is not valid JSON, and the
\* encoder's TypeError for a record that cannot be encoded.
C7_ErrorKindByCause ==
    \A c \in Calls :
        (pc[c] = "done" /\ outcome[c].state = "rejected") =>
            LET e == outcome[c].reason
            IN  CASE Len(sent[c]) = 0 ->
                        e = [name |-> "TypeError",
                             message |-> "Converting circular structure to JSON"]
                  [] Len(sent[c]) > 0 /\ net[c].s = "error" ->
                        e = [name |-> "TypeError", message |-> "fetch failed"]
                  [] Len(sent[c]) > 0 /\ FailedByStatus(c) ->
                        e = [name |-> "Error",
                             message |-> DocumentedFailure(net[c].status,
                                                           net[c].statusText)]
                  [] OTHER ->
                        /\ net[c].status \in SuccessRange
                        /\ IF body[c].s = "error"
                           THEN e = [name |-> "TypeError", message |-> "fetch failed"]
                           ELSE /\ body[c].s = "text"
                                /\ body[c].text \notin DOMAIN ExpectedJson
                                /\ e.name = "SyntaxError"

\* C7 witness: a call answered 200 with a non-JSON body failed with the
\* parser's error.
C7_Witness ==
    \E c \in Calls :
        /\ SucceededWithBody(c)
        /\ body[c].text = <<"<html>">>
        /\ outcome[c].state = "rejected"
        /\ outcome[c].reason.name = "SyntaxError"

\* The JSON text of each encodable partial record of the model.
DocumentedEncoding(rec) ==
    CASE rec = Obj(<<>>) -> <<"{", "}">>
      [] rec = Obj(<<Member("title", Str("Invoice"))>>) ->
            <<"{", "\"title\"", ":", "\"Invoice\"", "}">>
      [] rec = Obj(<<Member("name", Str("inbox"))>>) ->
            <<"{", "\"name\"", ":", "\"inbox\"", "}">>
      [] rec = Obj(<<Member("username", Str("inbox"))>>) ->
            <<"{", "\"username\"", ":", "\"inbox\"", "}">>
      [] rec = Obj(<<Member("path", Str("inbox"))>>) ->
            <<"{", "\"path\"", ":", "\"inbox\"", "}">>
      [] rec = Obj(<<Member("document", Num(5))>>) ->
            <<"{", "\"document\"", ":", "5", "}">>
      [] rec = Obj(<<Member("title", Undef), Member("tags", Arr(<<Num(3), Num(5)>>)),
                     Member("correspondent", Null)>>) ->
            <<"{", "\"tags\"", ":", "[", "3", ",", "5", "]", ",",
              "\"correspondent\"", ":", "null", "}">>

\* C9: every create (POST) and update (PATCH) request carries as body the
\* JSON encoding of exactly the partial record the caller passed, also when
\* that record has no field set; every list, get-by-id and delete request
\* carries no body.
C9_BodyIsEncodedRecord ==
    \A c \in Calls : \A i \in 1 .. Len(sent[c]) :
        IF MethodNamed(call[c].name).op \in {"create", "update"}
        THEN /\ sent[c][i].method \in {"POST", "PATCH"}
             /\ sent[c][i].body =
                    [t |-> "text", text |-> DocumentedEncoding(call[c].rec)]
        ELSE /\ sent[c][i].method \in {"GET", "DELETE"}
             /\ sent[c][i].body = Undef

\* C9 witness: a create call with a record that has no field set sent "{}".
C9_Witness ==
    \E c \in Calls :
        /\ Len(sent[c]) = 1
        /\ MethodNamed(call[c].name).op = "create"
        /\ call[c].rec = Obj(<<>>)
        /\ sent[c][1].body = [t |-> "text", text |-> <<"{", "}">>]


\* The requests a call sends, told from its own arguments and the
\* construction-time configuration alone.
DocumentedRequests(cl) ==
    LET m == MethodNamed(cl.name)
    IN  IF cl.rec = Unencodable THEN <<>>
        ELSE << [url |-> ctorArgs.baseUrl
                           \o DocumentedPath(KindOfMethod(m), m.op, cl.id),
                 method |-> DocumentedVerb[m.op],
                 headers |-> { <<"Authorization", ExpectedAuthorization[ctorArgs.token]>>,
                               <<"Content-Type", "application/json">> },
                 body |-> IF m.op \in {"create", "update"}
                          THEN [t |-> "text", text |-> DocumentedEncoding(cl.rec)]
                          ELSE Undef] >>

\* C8: the instance holds only its base URL and token and no call changes
\* them; under any interleaving of concurrent calls, the request a call
\* sends and the outcome it delivers depend only on its own arguments, the
\* construction-time configuration and its own response.
C8_CallsAreIndependent ==
    /\ baseUrl = ctorArgs.baseUrl
    /\ token = ctorArgs.token
    /\ \A c \in Calls : pc[c] # "idle" => sent[c] = DocumentedRequests(call[c])
    /\ \A c, d \in Calls :
           (call[c] = call[d] /\ pc[c] = pc[d] /\ net[c] = net[d] /\ body[c] = body[d])
               => (sent[c] = sent[d] /\ outcome[c] = outcome[d])

\* C8 witness: two overlapping calls of the same method with the same
\* arguments got different responses and delivered different outcomes.
C8_Witness ==
    \E c, d \in Calls :
        /\ c # d
        /\ call[c] = call[d]
        /\ pc[c] = "done" /\ outcome[c].state = "rejected"
        /\ pc[d] = "done" /\ outcome[d].state = "fulfilled"
        /\ sent[c] = sent[d]

\* The transport has delivered everything call c is waiting for.
TransportAnswered(c) ==
    \/ net[c].s = "error"
    \/ FailedByStatus(c)
    \/ net[c].s = "response" /\ body[c].s \in {"text", "error"}

\* C10 as stated: every call stays pending until the transport has
\* delivered a response or a failure, and completes only after that.
C10_CompletesOnlyAfterTransport ==
    \A c \in Calls : pc[c] = "done" => TransportAnswered(c)

\* C10, amended: a call that has handed its request to the transport has
\* no timeout or cancellation: it stays pending for as long as the transport
\* has delivered neither a response nor a failure, completes only after
\* that, and completes at most once; it finishes whenever the transport has
\* answered.  (A call whose record cannot be encoded never reaches the
\* transport and fails at once.)
C10_NoTimeoutOnceSent ==
    /\ [](\A c \in Calls :
            /\ net[c].s = "inflight" => (pc[c] = "awaitFetch" /\ outcome[c] = Pending)
            /\ body[c].s = "reading" => (pc[c] = "awaitJson" /\ outcome[c] = Pending)
            /\ (pc[c] = "done" /\ Len(sent[c]) = 1) => TransportAnswered(c)
            /\ (pc[c] = "done" /\ Len(sent[c]) = 0) => call[c].rec = Unencodable
            /\ settled[c] = (IF pc[c] = "done" THEN 1 ELSE 0)
            /\ (outcome[c] # Pending) <=> (pc[c] = "done"))
    /\ [][\A c \in Calls :
            (outcome[c] # Pending /\ pc'[c] # "idle") => outcome'[c] = outcome[c]]_vars
    /\ \A c \in Calls :
           (pc[c] \in {"awaitFetch", "awaitJson"} /\ TransportAnswered(c))
               ~> (pc[c] = "done")

\* C10 witness: one call is still pending on a transport that has not
\* answered while an overlapping call, answered, has completed once.
C10_Witness ==
    \E c, d \in Calls :
        /\ pc[c] = "awaitFetch" /\ net[c].s = "inflight" /\ outcome[c] = Pending
        /\ pc[d] = "done" /\ settled[d] = 1 /\ TransportAnswered(d)

=============================================================================
